---- MODULE Spec2Model ----
(***************************************************************************)
(* A model of Emotet.run (modules/processing/parsers/mwcp/parsers/         *)
(* Emotet.py): the extraction of the C2 endpoint list and of the RSA       *)
(* public key from a byte buffer.                                          *)
(*                                                                         *)
(* The buffer is a sequence of bytes.  The answers of the pattern scanner  *)
(* (yara) and of the container reader (pefile: image base and RVA to file  *)
(* offset translation) are inputs of a run, fixed by Init.  A run starts   *)
(* after the container has been opened (line 85).  The host is taken to    *)
(* be little-endian (the native struct formats 'I', 'i', 'h', 'H' of       *)
(* lines 95-111 then read as the explicit '<I' of line 123 does), and the  *)
(* interpreter to be Python 2 (xor_data works on str with ord and chr).    *)
(*                                                                         *)
(* The rule text of lines 24-45 declares no string named $c2list, so with  *)
(* that rule text the scanner never reports it; the model keeps the        *)
(* scanner's answer for $c2list a free input, as for the other names, so   *)
(* that lines 93-106 are exercised.                                        *)
(***************************************************************************)
EXTENDS Integers, Sequences, FiniteSets, TLC

VARIABLES
    filebuf,        \* self.reporter.data: the input buffer (line 83)
    image_base,     \* pe.OPTIONAL_HEADER.ImageBase (line 85)
    hits,           \* the scanner's answers: signature name -> anchor or None
    sections,       \* the container's section table behind get_offset_from_rva
    scen,           \* how the buffer was crafted (what was embedded where)
    pc,             \* position of the run in Emotet.run
    pem_key,        \* result of extract_emotet_rsakey (line 87)
    alt,            \* index in ListOrder of the signature being handled
    list_offset,    \* ips_offset / c2_list_offset: the record walk's offset
    ip,             \* the address field last read by the record walk
    reported,       \* the reporter.add_metadata calls, in order
    scanned,        \* the yara_scan calls (their rule_name), in order
    rva_calls,      \* the pe.get_offset_from_rva calls: <<signature, rva>>
    walk_start,     \* <<offset, signature>> of the record walk, once begun
    ref_rsa_offset, \* the resolved offset of the obfuscated key block
    decoded,        \* <<[xorsize, data, plain]>> once line 269 has run
    fault           \* the exception that left run, or "none"

vars == <<filebuf, image_base, hits, sections, scen, pc, pem_key, alt,
          list_offset, ip, reported, scanned, rva_calls, walk_start,
          ref_rsa_offset, decoded, fault>>

inputs == <<filebuf, image_base, hits, sections, scen>>


(***************************************************************************)
(* Bounds of the model.                                                    *)
(***************************************************************************)
MaxRecs == 2          \* records embedded in a crafted list
MaxFound == 2         \* signatures the scanner reports present in one run
AnchorBase == 0       \* offset of the first crafted field in the buffer

(***************************************************************************)
(* Program constants.                                                      *)
(***************************************************************************)
Threshold == 131072   \* 0x20000
StrideShort == 8 - 2   \* a walk that steps over the six bytes it reads
Stride == 8           \* bytes from one record to the next
AddrLen == 4          \* the address field of a record
PortAt == 4           \* the port field starts here in a record
PortLen == 2
PubKeyLen == 106      \* pub_matches[0][0:106]
RsaPtrAt == 28        \* ref_rsa_offset+28

Min(a, b) == IF a < b THEN a ELSE b
Max(a, b) == IF a > b THEN a ELSE b

RECURSIVE Zeros(_)
Zeros(n) == IF n <= 0 THEN <<>> ELSE <<0>> \o Zeros(n - 1)

RECURSIVE Flatten(_)
Flatten(ss) == IF ss = <<>> THEN <<>> ELSE Head(ss) \o Flatten(Tail(ss))

(***************************************************************************)
(* Python and library primitives the code uses.                            *)
(***************************************************************************)

\* filebuf[a:b] for 0 <= a: a slice is clamped to the buffer, never an error.
Slice(buf, a, b) ==
    IF a >= Len(buf) \/ b <= a THEN <<>>
    ELSE SubSeq(buf, a + 1, Min(b, Len(buf)))

\* struct.unpack raises struct.error unless the string has the format's size;
\* the unpack operators below give the value of a string of the right size.
StructError == "struct.error"

\* struct.unpack('<I', s)[0].  The value is kept as <<high 16 bits, low 16 bits>>.
unpack_I(s) == <<s[3] + 256 * s[4], s[1] + 256 * s[2]>>

\* struct.unpack('i', s)[0]: signed 32 bits.
unpack_i(s) ==
    s[1] + 256 * s[2] + 65536 * s[3]
    + 16777216 * (IF s[4] >= 128 THEN s[4] - 256 ELSE s[4])

\* struct.unpack('h', s)[0]: signed 16 bits.
unpack_h(s) == s[1] + 256 * (IF s[2] >= 128 THEN s[2] - 256 ELSE s[2])

\* struct.unpack('H', s)[0]: unsigned 16 bits.
unpack_H(s) == s[1] + 256 * s[2]

\* struct.unpack('b', s)[0]: signed 8 bits.
unpack_b(s) == IF s[1] >= 128 THEN s[1] - 256 ELSE s[1]

\* struct.pack('!L', v): big-endian bytes of an unsigned 32-bit value.
pack_BE(v) == <<v[1] \div 256, v[1] % 256, v[2] \div 256, v[2] % 256>>

\* struct.pack('<I', v): little-endian bytes.
pack_LE(v) == <<v[2] % 256, v[2] \div 256, v[1] % 256, v[1] \div 256>>

RECURSIVE BitXor(_, _)
BitXor(a, b) ==
    IF a = 0 THEN b
    ELSE IF b = 0 THEN a
    ELSE 2 * BitXor(a \div 2, b \div 2) + (((a % 2) + (b % 2)) % 2)

\* key ^ value on unsigned 32-bit values.
Xor32(v, w) == <<BitXor(v[1], w[1]), BitXor(v[2], w[2])>>

DigitChars == <<"0", "1", "2", "3", "4", "5", "6", "7", "8", "9">>

RECURSIVE NatStr(_)
NatStr(n) ==
    IF n < 10 THEN <<DigitChars[n + 1]>>
    ELSE NatStr(n \div 10) \o <<DigitChars[(n % 10) + 1]>>

\* str(n) for an int: decimal text, as a sequence of characters.
str(n) == IF n < 0 THEN <<"-">> \o NatStr(0 - n) ELSE NatStr(n)

\* socket.inet_ntoa(b): dotted decimal of four bytes, in their order.
inet_ntoa(b) ==
    NatStr(b[1]) \o <<".">> \o NatStr(b[2]) \o <<".">> \o NatStr(b[3])
    \o <<".">> \o NatStr(b[4])

(***************************************************************************)
(* Crypto.Util.asn1.DerSequence.decode followed by RSA.construct((seq[0],  *)
(* seq[1])): a SEQUENCE (tag 0x30) whose first two elements are INTEGERs   *)
(* (tag 0x02).  Lengths are in the short form (below 0x80), which covers   *)
(* every blob of this model and the 106-byte key of the direct pattern.    *)
(* Bytes after the sequence are left alone.  Any failure is an exception.  *)
(* A result is [kind, n, e]: kind "key" with modulus n and exponent e,     *)
(* kind "error" (the decode raised) or kind "none" (no key).               *)
(***************************************************************************)
DerError == "ValueError"
NoKey == [kind |-> "none", n |-> <<>>, e |-> <<>>]
KeyError == [kind |-> "error", n |-> <<>>, e |-> <<>>]

\* Whether a DER payload splits into elements.
RECURSIVE DerWellFormed(_)
DerWellFormed(p) ==
    \/ p = <<>>
    \/ /\ Len(p) >= 2
       /\ p[2] < 128
       /\ Len(p) >= 2 + p[2]
       /\ DerWellFormed(SubSeq(p, 3 + p[2], Len(p)))

\* The elements <<tag, value>> of a well-formed DER payload.
RECURSIVE DerElements(_)
DerElements(p) ==
    IF p = <<>> THEN <<>>
    ELSE <<<<p[1], SubSeq(p, 3, 2 + p[2])>>>>
         \o DerElements(SubSeq(p, 3 + p[2], Len(p)))

\* seq.decode(b); RSA.construct((seq[0], seq[1])).
DerDecodeKey(b) ==
    IF Len(b) < 2 \/ b[1] # 48 \/ b[2] >= 128 \/ Len(b) < 2 + b[2] THEN KeyError
    ELSE LET p == SubSeq(b, 3, 2 + b[2])
         IN  IF ~DerWellFormed(p) THEN KeyError
             ELSE LET els == DerElements(p)
                  IN  IF Len(els) < 2 \/ els[1][1] # 2 \/ els[2][1] # 2
                      THEN KeyError
                      ELSE [kind |-> "key", n |-> els[1][2], e |-> els[2][2]]

\* The bytes the pattern of line 71 ends with, after 0x30 and 100 bytes.
PubTail == <<2, 3, 1, 0, 1, 0, 0>>

\* re.findall of line 71: the offsets at which the pattern matches.
PubMatches(buf) ==
    {i \in 0..(Len(buf) - 108) :
        /\ buf[i + 1] = 48
        /\ SubSeq(buf, i + 102, i + 108) = PubTail}

\* extract_emotet_rsakey: no key, a key, or the exception of seq.decode.
extract_emotet_rsakey(buf) ==
    IF PubMatches(buf) = {} THEN NoKey
    ELSE LET first == CHOOSE i \in PubMatches(buf) :
                          \A j \in PubMatches(buf) : i <= j
         IN  DerDecodeKey(Slice(buf, first, first + PubKeyLen))

\* An unmasking that uses the first key byte for every position.
xor_data_one_byte(data, key) ==
    [i \in 1..Len(data) |-> BitXor(data[i], key[1])]

\* xor_data(data, key): byte i of data against byte i mod len(key) of key.
xor_data(data, key) ==
    [i \in 1..Len(data) |-> BitXor(data[i], key[((i - 1) % Len(key)) + 1])]

(***************************************************************************)
(* The scanner and the container reader.                                   *)
(***************************************************************************)
\* A driver that tries $snippet4 before $snippet3.
ListOrderSwapped == <<"$c2list", "$snippet4", "$snippet3", "$snippet5",
                      "$snippet6", "$snippet7">>

ListOrder == <<"$c2list", "$snippet3", "$snippet4", "$snippet5",
               "$snippet6", "$snippet7">>
RefRsa == "$ref_rsa"
Sigs == {ListOrder[i] : i \in 1..Len(ListOrder)} \cup {RefRsa}

\* yara_scan(raw_data, rule_name): [hit, at]: whether rule_name matched, and
\* where (addresses[rule_name]); the function returns None when hit is FALSE.
yara_scan(h, rule_name) == h[rule_name]

NotMapped == "PEFormatError"

\* pe.get_offset_from_rva(rva): [ok, off]: the offset in the section holding
\* rva; the reader raises PEFormatError when ok is FALSE.
get_offset_from_rva(secs, rva) ==
    IF \E s \in secs : rva >= s.va /\ rva < s.va + s.size
    THEN LET s == CHOOSE t \in secs : rva >= t.va /\ rva < t.va + t.size
         IN  [ok |-> TRUE, off |-> rva - s.va + s.raw]
    ELSE [ok |-> FALSE, off |-> 0]

\* Distances that take no account of the byte at anchor+29.
PtrDistanceNoShift(sig, hb) ==
    CASE sig = "$snippet3" -> 2
      [] sig = "$snippet4" -> 8
      [] sig = "$snippet5" -> 5
      [] sig = "$snippet6" -> 15
      [] sig = "$snippet7" -> 26

\* Distance from a signature's anchor to its embedded pointer; for $snippet7
\* it depends on the byte at anchor+29 (lines 227-230).
PtrDistance(sig, hb) ==
    CASE sig = "$snippet3" -> 2
      [] sig = "$snippet4" -> 8
      [] sig = "$snippet5" -> 5
      [] sig = "$snippet6" -> 15
      [] sig = "$snippet7" -> IF hb # 0 THEN 27 ELSE 26

\* Lines 112-115 ($snippet3) and 141-144 and their copies (the others):
\* [bound, rva]: c2_list_rva after the if statement; on line 113 the masked
\* value goes to c2_list_va and c2_list_rva stays unbound.
c2_list_rva_of(sig, va, base) ==
    IF va - base > Threshold
    THEN IF sig = "$snippet3" THEN [bound |-> FALSE, rva |-> 0]
         ELSE [bound |-> TRUE, rva |-> va % 65536]
    ELSE [bound |-> TRUE, rva |-> va - base]

(***************************************************************************)
(* The inputs of a run.  A buffer is crafted from a scenario sc: an        *)
(* optional key block for the direct pattern, the anchor of the list       *)
(* signatures with the list pointer embedded at sc.ptrAt, the anchor of    *)
(* $ref_rsa with its pointer at +28, the obfuscated key block (key, key    *)
(* XOR size, masked blob), the records and the bytes after them.           *)
(***************************************************************************)
RECURSIVE Fill(_, _)
Fill(n, v) == IF n <= 0 THEN <<>> ELSE <<v>> \o Fill(n - 1, v)

\* Little-endian bytes of 0 <= n < 2^31.
LE32(n) == <<n % 256, (n \div 256) % 256, (n \div 65536) % 256, n \div 16777216>>

\* A 768-bit key as the malware embeds it (106 bytes) and the two zero bytes
\* that follow it; "malformed" matches the pattern and is no DER sequence.
Front(sc) ==
    CASE sc.direct = "none" -> <<>>
      [] sc.direct = "valid" ->
            <<48, 104, 2, 97, 0>> \o Fill(96, 195) \o <<2, 3, 1, 0, 1, 0, 0>>
      [] sc.direct = "malformed" ->
            <<48>> \o Zeros(100) \o <<2, 3, 1, 0, 1, 0, 0>>

ListAnchor(sc) == AnchorBase + Len(Front(sc))
RsaAnchor(sc) == ListAnchor(sc) + 32
KeyStart(sc) == RsaAnchor(sc) + 32
RecStart(sc) == KeyStart(sc) + 8 + Len(sc.blob)

\* The list pointer embedded at the list signatures' anchor.
ListVA(sc) ==
    CASE sc.lkind = "plain" -> sc.base + 4096 + RecStart(sc)
      [] sc.lkind = "edge" -> sc.base + Threshold
      [] sc.lkind = "edge1" -> sc.base + Threshold + 1
      [] sc.lkind = "masked" -> sc.base + Threshold + 4096 + RecStart(sc)
      [] sc.lkind = "stray" -> sc.base + 20480

\* The pointer embedded at the $ref_rsa anchor.
RsaVA(sc) ==
    CASE sc.rkind = "plain" -> sc.base + 4096 + KeyStart(sc)
      [] sc.rkind = "far" -> sc.base + Threshold + 4096 + KeyStart(sc)
      [] sc.rkind = "stray" -> sc.base + 20480

\* The size field's plain value.
SizeValue(sc) ==
    CASE sc.size = "ok" -> <<0, Len(sc.blob)>>
      [] sc.size = "zero" -> <<0, 0>>
      [] sc.size = "short" -> <<0, Len(sc.blob) - 1>>
      [] sc.size = "over" -> <<1, Len(sc.blob)>>

\* The blob as embedded: byte i against byte (i mod 4) of the key.
Masked(blob, key) ==
    LET kb == <<key[2] % 256, key[2] \div 256, key[1] % 256, key[1] \div 256>>
    IN  [i \in 1..Len(blob) |->
            BitXor(blob[i], CASE i % 4 = 1 -> kb[1] [] i % 4 = 2 -> kb[2]
                              [] i % 4 = 3 -> kb[3] [] i % 4 = 0 -> kb[4])]

Halves(v) == <<v[2] % 256, v[2] \div 256, v[1] % 256, v[1] \div 256>>

KeyBlock(sc) ==
    Halves(sc.key) \o Halves(Xor32(sc.key, SizeValue(sc)))
    \o Masked(sc.blob, sc.key)

RecBytes(r) == r.a \o r.p \o <<7, 7>>

\* The crafted fields, one after the other.
LayoutBuf(sc) ==
    Zeros(AnchorBase) \o Front(sc)
    \o Zeros(sc.ptrAt) \o LE32(ListVA(sc)) \o Zeros(32 - sc.ptrAt - 4)
    \o Zeros(28) \o LE32(RsaVA(sc))
    \o KeyBlock(sc)
    \o Flatten([i \in 1..Len(sc.recs) |-> RecBytes(sc.recs[i])])
    \o sc.tail

\* A buffer that is records from its first crafted byte to its last, the
\* last record ending with its port field: Len(sc.recs) records of 8 bytes
\* and one of 6.  The pointer of $snippet3 (anchor+2) lies in the first
\* record and leads back to it.
DenseBuf(sc) ==
    Zeros(AnchorBase) \o <<9, 9>> \o LE32(sc.base + 4096 + AnchorBase)
    \o <<7, 7>>
    \o Flatten([i \in 1..Len(sc.recs) |-> RecBytes(sc.recs[i])])
    \o <<9, 9, 9, 9, 80, 0>>

\* Where a cut buffer ends: inside the list pointer, before the byte at
\* anchor+29, inside the $ref_rsa pointer, inside the key field, inside the
\* size field, inside the masked blob.
CutAt(sc) ==
    CASE sc.cut = "ptr" -> ListAnchor(sc) + sc.ptrAt + 2
      [] sc.cut = "hb" -> ListAnchor(sc) + 29
      [] sc.cut = "rsaptr" -> RsaAnchor(sc) + 30
      [] sc.cut = "key" -> KeyStart(sc) + 2
      [] sc.cut = "size" -> KeyStart(sc) + 6
      [] sc.cut = "blob" -> KeyStart(sc) + 8 + 3

BuildBuf(sc) ==
    IF sc.shape = "dense" THEN DenseBuf(sc)
    ELSE IF sc.cut = "none" THEN LayoutBuf(sc)
    ELSE SubSeq(LayoutBuf(sc), 1, CutAt(sc))

\* The section table: RVA 0x1000+x is file offset x; RVA 0x20000 and RVA 1
\* are the start of the records.
StdSections(sc) ==
    { [va |-> 4096, size |-> 4096, raw |-> 0],
      [va |-> Threshold, size |-> 16, raw |-> RecStart(sc)],
      [va |-> 0, size |-> 16, raw |-> RecStart(sc) - 1] }

BuildSections(sc) == IF sc.table = "std" THEN StdSections(sc) ELSE {}

\* The scanner's answers: $c2list is the list itself, the other list
\* signatures share one anchor, $ref_rsa has its own.
BuildHits(sc) ==
    [s \in Sigs |->
        [hit |-> s \in sc.found,
         at |-> CASE s = "$c2list" ->
                        IF sc.shape = "dense" THEN AnchorBase ELSE RecStart(sc)
                  [] s = RefRsa -> RsaAnchor(sc)
                  [] OTHER -> ListAnchor(sc)]]

\* Records: ports 80, 0x8000, 0x7FFF and 0xFFFF.
RecChoices ==
    { [a |-> <<1, 0, 0, 10>>, p |-> <<80, 0>>],
      [a |-> <<200, 3, 2, 1>>, p |-> <<0, 128>>],
      [a |-> <<0, 0, 5, 0>>, p |-> <<255, 127>>],
      [a |-> <<7, 0, 0, 0>>, p |-> <<255, 255>>] }

RecSeqs == UNION {[1..n -> RecChoices] : n \in 0..MaxRecs}

\* After the records: a zero record, a zero address field alone, nothing,
\* a nonzero address with no port field, with half a port field, and a
\* record that is whole and last in the buffer.
TailChoices ==
    { Zeros(8), Zeros(4), <<>>, <<9, 9>>, <<9, 9, 9, 9>>, <<9, 9, 9, 9, 80>>,
      <<9, 9, 9, 9, 80, 0>> }

FoundSets == {f \in SUBSET Sigs : Cardinality(f) <= MaxFound}

\* The first list signature of a found set, in the driver's order.
FirstList(f) ==
    IF \E i \in 1..Len(ListOrder) : ListOrder[i] \in f
    THEN ListOrder[CHOOSE i \in 1..Len(ListOrder) :
            /\ ListOrder[i] \in f
            /\ \A j \in 1..(i - 1) : ListOrder[j] \notin f]
    ELSE "$snippet3"

\* Where a buffer crafted for a found set carries its list pointer.
PtrChoices(f) ==
    IF FirstList(f) = "$snippet7" THEN {26, 27}
    ELSE IF FirstList(f) = "$c2list" THEN {2}
    ELSE {PtrDistance(FirstList(f), 0)}

ImageBases == {4194304, 268435456}
KeyChoices == {<<0, 4660>>, <<43981, 61185>>}
BlobChoices ==
    { <<48, 6, 2, 1, 5, 2, 1, 3>>,
      <<48, 9, 2, 3, 1, 0, 129, 2, 2, 1, 1>>,
      <<49, 6, 2, 1, 5, 2, 1, 3>>,
      <<48, 6, 2, 1, 5, 4, 1, 3>> }

Default ==
    [direct |-> "none", found |-> {}, ptrAt |-> 2, lkind |-> "plain",
     base |-> 4194304, table |-> "std",
     recs |-> <<[a |-> <<1, 0, 0, 10>>, p |-> <<80, 0>>]>>, tail |-> Zeros(8),
     key |-> <<0, 4660>>, blob |-> <<48, 6, 2, 1, 5, 2, 1, 3>>,
     size |-> "ok", rkind |-> "plain", shape |-> "layout", cut |-> "none"]

\* Scenarios that vary what the scanner and the translator answer.
DispatchScenarios ==
    UNION { { [Default EXCEPT !.found = f, !.ptrAt = q, !.lkind = l,
                              !.table = t, !.direct = d, !.rkind = r, !.base = b]
              : q \in PtrChoices(f) }
            : f \in FoundSets, l \in {"plain", "edge", "edge1", "masked", "stray"},
              t \in {"std", "none"}, d \in {"none", "valid", "malformed"},
              r \in {"plain", "stray"}, b \in ImageBases }

\* Scenarios that vary the records and what follows them.
WalkScenarios ==
    UNION { { [Default EXCEPT !.found = f, !.ptrAt = q, !.recs = rs,
                              !.tail = tl, !.lkind = l]
              : q \in PtrChoices(f) }
            : f \in {{ListOrder[i]} : i \in 1..Len(ListOrder)},
              rs \in RecSeqs, tl \in TailChoices, l \in {"plain", "masked"} }

\* Scenarios that vary the obfuscated key block.
KeyScenarios ==
    { [Default EXCEPT !.found = f, !.ptrAt = 8, !.key = k, !.blob = bl,
                      !.size = sz, !.rkind = r, !.direct = d]
      : f \in {{RefRsa}, {RefRsa, "$snippet4"}, {RefRsa, "$c2list"}},
        k \in KeyChoices, bl \in BlobChoices,
        sz \in {"ok", "zero", "short", "over"},
        r \in {"plain", "far", "stray"}, d \in {"none", "valid", "malformed"} }

\* Scenarios in which the buffer ends before a field the run reads.
CutScenarios ==
    UNION { { [Default EXCEPT !.found = f, !.ptrAt = q, !.cut = c, !.direct = d]
              : q \in PtrChoices(f) }
            : f \in {{ListOrder[i]} : i \in 2..Len(ListOrder)}
                    \cup {{ListOrder[i], RefRsa} : i \in 2..Len(ListOrder)}
                    \cup {{RefRsa}},
              c \in {"ptr", "hb", "rsaptr", "key", "size", "blob"},
              d \in {"none", "valid"} }

\* Scenarios in which the buffer is records from end to end.
DenseScenarios ==
    { [Default EXCEPT !.found = f, !.recs = rs, !.shape = "dense"]
      : f \in {{"$c2list"}, {"$snippet3"}, {"$snippet3", RefRsa}},
        rs \in RecSeqs }

Scenarios ==
    DispatchScenarios \cup WalkScenarios \cup KeyScenarios
    \cup CutScenarios \cup DenseScenarios

NoIp == <<0, 0>>

Init ==
    /\ scen \in Scenarios
    /\ filebuf = BuildBuf(scen)
    /\ image_base = scen.base
    /\ hits = BuildHits(scen)
    /\ sections = BuildSections(scen)
    /\ pc = "direct_key"
    /\ pem_key = NoKey
    /\ alt = 1
    /\ list_offset = 0
    /\ ip = NoIp
    /\ reported = <<>>
    /\ scanned = <<>>
    /\ rva_calls = <<>>
    /\ walk_start = <<>>
    /\ ref_rsa_offset = 0
    /\ decoded = <<>>
    /\ fault = "none"

(***************************************************************************)
(* Emotet.run, from line 87 on.                                            *)
(***************************************************************************)
AddressEntry(text) == [type |-> "address", text |-> text, key |-> NoKey]
KeyEntry(k) == [type |-> "other", text |-> <<>>, key |-> k]

\* An exception leaves run.
Raise(e) == /\ pc' = "raised"
            /\ fault' = e

\* c2_address+':'+port for the address value and the port number read.
Endpoint(addr, port) == inet_ntoa(pack_BE(addr)) \o <<":">> \o str(port)

\* Lines 87-89: the direct key.
DirectKey ==
    /\ pc = "direct_key"
    /\ LET k == extract_emotet_rsakey(filebuf)
       IN  IF k.kind = "error"
           THEN /\ Raise(DerError)
                /\ UNCHANGED <<pem_key, reported>>
           ELSE /\ pem_key' = k
                /\ reported' = IF k.kind = "key"
                               THEN Append(reported, KeyEntry(k))
                               ELSE reported
                /\ pc' = "scan_c2list"
                /\ UNCHANGED fault
    /\ UNCHANGED <<inputs, alt, list_offset, ip, scanned, rva_calls,
                   walk_start, ref_rsa_offset, decoded>>

\* Lines 91-95: the primary list; its anchor is the list, and the first
\* address field is read outside any try.
ScanC2List ==
    /\ pc = "scan_c2list"
    /\ scanned' = Append(scanned, ListOrder[1])
    /\ LET c2list == yara_scan(hits, ListOrder[1])
           first == Slice(filebuf, c2list.at, c2list.at + AddrLen)
       IN  IF ~c2list.hit
           THEN /\ pc' = "scan_alt"
                /\ alt' = 2
                /\ UNCHANGED <<list_offset, ip, walk_start, fault>>
           ELSE IF Len(first) # AddrLen
           THEN /\ Raise(StructError)
                /\ list_offset' = c2list.at
                /\ UNCHANGED <<alt, ip, walk_start>>
           ELSE /\ pc' = "walk_primary"
                /\ list_offset' = c2list.at
                /\ walk_start' = <<c2list.at, ListOrder[1]>>
                /\ ip' = unpack_I(first)
                /\ UNCHANGED <<alt, fault>>
    /\ UNCHANGED <<inputs, pem_key, reported, rva_calls, ref_rsa_offset, decoded>>

\* A primary walk that reads its port as the fallback walks do.
PrimaryPortUnsigned(s) == s[1] + 256 * s[2]

\* The port of the primary walk: struct.unpack('h', ...), line 99.
PrimaryPort(s) == unpack_h(s)

\* Lines 97-106: one turn of the primary walk, or the return that ends it.
WalkPrimary ==
    /\ pc = "walk_primary"
    /\ LET portField == Slice(filebuf, list_offset + PortAt,
                              list_offset + PortAt + PortLen)
           next == Slice(filebuf, list_offset + Stride,
                         list_offset + Stride + AddrLen)
       IN  IF ip = NoIp
           THEN /\ pc' = "done"
                /\ UNCHANGED <<reported, list_offset, ip, fault>>
           ELSE IF Len(portField) # PortLen
           THEN /\ Raise(StructError)
                /\ UNCHANGED <<reported, list_offset, ip>>
           ELSE /\ reported' = Append(reported,
                        AddressEntry(Endpoint(ip, PrimaryPort(portField))))
                /\ list_offset' = list_offset + Stride
                /\ IF Len(next) # AddrLen
                   THEN /\ Raise(StructError)
                        /\ UNCHANGED ip
                   ELSE /\ ip' = unpack_I(next)
                        /\ UNCHANGED <<pc, fault>>
    /\ UNCHANGED <<inputs, pem_key, alt, scanned, rva_calls, walk_start,
                   ref_rsa_offset, decoded>>

\* Lines 108-109, 137-138, 166-167, 195-196, 224-225: the scan for the
\* alternative ListOrder[alt], reached when every earlier scan found nothing.
ScanAlt ==
    /\ pc = "scan_alt"
    /\ scanned' = Append(scanned, ListOrder[alt])
    /\ IF yara_scan(hits, ListOrder[alt]).hit
       THEN /\ pc' = "resolve"
            /\ UNCHANGED alt
       ELSE IF alt < Len(ListOrder)
       THEN /\ alt' = alt + 1
            /\ UNCHANGED pc
       ELSE /\ pc' = "key_guard"
            /\ UNCHANGED alt
    /\ UNCHANGED <<inputs, pem_key, list_offset, ip, reported, rva_calls,
                   walk_start, ref_rsa_offset, decoded, fault>>

\* Lines 110-119 and their copies: the embedded pointer, the threshold rule
\* and the translator.  PEFormatError is not a name of the module, so the
\* except clause of line 118 raises NameError for whatever the try raised.
ResolveAlt ==
    /\ pc = "resolve"
    /\ LET sig == ListOrder[alt]
           at == yara_scan(hits, sig).at
           hbField == Slice(filebuf, at + 29, at + 30)
           dist == PtrDistance(sig, IF sig = "$snippet7" /\ Len(hbField) = 1
                                    THEN unpack_b(hbField) ELSE 0)
           field == Slice(filebuf, at + dist, at + dist + 4)
       IN  IF (sig = "$snippet7" /\ Len(hbField) # 1) \/ Len(field) # 4
           THEN /\ Raise(StructError)
                /\ UNCHANGED <<rva_calls, list_offset, walk_start>>
           ELSE LET r == c2_list_rva_of(sig, unpack_i(field), image_base)
                    t == get_offset_from_rva(sections, r.rva)
                IN  IF ~r.bound
                    THEN /\ Raise("NameError")
                         /\ UNCHANGED <<rva_calls, list_offset, walk_start>>
                    ELSE /\ rva_calls' = Append(rva_calls, <<sig, r.rva>>)
                         /\ IF ~t.ok
                            THEN /\ Raise("NameError")
                                 /\ UNCHANGED <<list_offset, walk_start>>
                            ELSE /\ pc' = "walk_alt"
                                 /\ list_offset' = t.off
                                 /\ walk_start' = <<t.off, sig>>
                                 /\ UNCHANGED fault
    /\ UNCHANGED <<inputs, pem_key, alt, ip, reported, scanned,
                   ref_rsa_offset, decoded>>

\* The port of a fallback walk: struct.unpack('H', ...), line 129.
FallbackPort(s) == unpack_H(s)

\* Lines 121-135 and their copies: one turn of a fallback walk.  Only the
\* read of the address field is inside the try.
WalkAlt ==
    /\ pc = "walk_alt"
    /\ LET addrField == Slice(filebuf, list_offset, list_offset + AddrLen)
           portField == Slice(filebuf, list_offset + PortAt,
                              list_offset + PortAt + PortLen)
       IN  IF Len(addrField) # AddrLen \/ unpack_I(addrField) = NoIp
           THEN /\ pc' = "key_guard"
                /\ UNCHANGED <<reported, list_offset, ip, fault>>
           ELSE IF Len(portField) # PortLen
           THEN /\ Raise(StructError)
                /\ ip' = unpack_I(addrField)
                /\ UNCHANGED <<reported, list_offset>>
           ELSE /\ ip' = unpack_I(addrField)
                /\ reported' = Append(reported,
                        AddressEntry(Endpoint(unpack_I(addrField),
                                              FallbackPort(portField))))
                /\ list_offset' = list_offset + Stride
                /\ UNCHANGED <<pc, fault>>
    /\ UNCHANGED <<inputs, pem_key, alt, scanned, rva_calls, walk_start,
                   ref_rsa_offset, decoded>>

\* A guard with its test turned round (if pem_key: ...).
NoDirectKeyInverted(k) == k.kind = "key"

\* A guard that lets the obfuscated attempt run whatever the direct one gave.
NoDirectKeyIgnored(k) == TRUE

\* not pem_key (line 257): a key object is true, None is false.
NoDirectKey(k) == k.kind # "key"

\* Lines 257-259: the obfuscated key is tried when there is no direct key.
KeyGuard ==
    /\ pc = "key_guard"
    /\ IF ~NoDirectKey(pem_key)
       THEN /\ pc' = "done"
            /\ UNCHANGED scanned
       ELSE /\ scanned' = Append(scanned, RefRsa)
            /\ pc' = IF yara_scan(hits, RefRsa).hit THEN "rsa_resolve" ELSE "done"
    /\ UNCHANGED <<inputs, pem_key, alt, list_offset, ip, reported, rva_calls,
                   walk_start, ref_rsa_offset, decoded, fault>>

\* An obfuscated attempt that resolves its pointer as the list variants do.
ref_rsa_rva_masked(va, base) ==
    IF va - base > Threshold THEN va % 65536 ELSE va - base

\* Line 262: ref_rsa_rva = ref_rsa_va - image_base.
ref_rsa_rva_of(va, base) == va - base

\* Lines 260-266: the pointer at anchor+28, resolved without the threshold
\* rule; whatever the translator raises ends the run (return).
RsaResolve ==
    /\ pc = "rsa_resolve"
    /\ LET at == yara_scan(hits, RefRsa).at
           field == Slice(filebuf, at + RsaPtrAt, at + RsaPtrAt + 4)
       IN  IF Len(field) # 4
           THEN /\ Raise(StructError)
                /\ UNCHANGED <<rva_calls, ref_rsa_offset>>
           ELSE LET ref_rsa_rva == ref_rsa_rva_of(unpack_i(field), image_base)
                    t == get_offset_from_rva(sections, ref_rsa_rva)
                IN  /\ rva_calls' = Append(rva_calls, <<RefRsa, ref_rsa_rva>>)
                    /\ IF ~t.ok
                       THEN /\ pc' = "done"
                            /\ UNCHANGED <<ref_rsa_offset, fault>>
                       ELSE /\ pc' = "rsa_decode"
                            /\ ref_rsa_offset' = t.off
                            /\ UNCHANGED fault
    /\ UNCHANGED <<inputs, pem_key, alt, list_offset, ip, reported, scanned,
                   walk_start, decoded>>

\* filebuf[a:a+n] for an unsigned 32-bit n kept as <<high, low>>.
SliceN(buf, a, n) ==
    IF n[1] > 0 THEN Slice(buf, a, a + Len(buf) + 1) ELSE Slice(buf, a, a + n[2])

\* Lines 267-272: key, size, unmasking and DER decode of the blob.
RsaDecode ==
    /\ pc = "rsa_decode"
    /\ LET keyField == Slice(filebuf, ref_rsa_offset, ref_rsa_offset + 4)
           sizeField == Slice(filebuf, ref_rsa_offset + 4, ref_rsa_offset + 8)
       IN  IF Len(keyField) # 4 \/ Len(sizeField) # 4
           THEN /\ Raise(StructError)
                /\ UNCHANGED <<decoded, reported>>
           ELSE LET key == unpack_I(keyField)
                    xorsize == Xor32(key, unpack_I(sizeField))
                    data == SliceN(filebuf, ref_rsa_offset + 8, xorsize)
                    rsa_key == xor_data(data, pack_LE(key))
                    k == DerDecodeKey(rsa_key)
                IN  /\ decoded' = <<[xorsize |-> xorsize, data |-> data,
                                     plain |-> rsa_key]>>
                    /\ IF k.kind = "error"
                       THEN /\ Raise(DerError)
                            /\ UNCHANGED reported
                       ELSE /\ reported' = Append(reported, KeyEntry(k))
                            /\ pc' = "done"
                            /\ UNCHANGED fault
    /\ UNCHANGED <<inputs, pem_key, alt, list_offset, ip, scanned, rva_calls,
                   walk_start, ref_rsa_offset>>

Next ==
    \/ DirectKey
    \/ ScanC2List
    \/ WalkPrimary
    \/ ScanAlt
    \/ ResolveAlt
    \/ WalkAlt
    \/ KeyGuard
    \/ RsaResolve
    \/ RsaDecode

Spec == Init /\ [][Next]_vars

(***************************************************************************)
(* What a run has reported, and what the buffer holds.                     *)
(***************************************************************************)
IsAddress(r) == r.type = "address"
IsKey(r) == r.type = "other"
Endpoints == SelectSeq(reported, IsAddress)
Keys == SelectSeq(reported, IsKey)
Texts == [i \in 1..Len(Endpoints) |-> Endpoints[i].text]
Scanned(sig) == \E i \in 1..Len(scanned) : scanned[i] = sig
IsListSig(sig) == sig # RefRsa
ListScans == SelectSeq(scanned, IsListSig)
Present(sig) == hits[sig].hit
Ended == pc \in {"done", "raised"}
WalkOver == walk_start # <<>> /\ pc \notin {"walk_primary", "walk_alt"}

\* The byte at a file offset.
Byte(o) == filebuf[o + 1]

\* At start the buffer holds n records with a nonzero address field and
\* then an address field of zero.
HoldsList(start, n) ==
    /\ start + 8 * n + 4 <= Len(filebuf)
    /\ \A i \in 0..(n - 1) : \E k \in 0..3 : Byte(start + 8 * i + k) # 0
    /\ \A k \in 0..3 : Byte(start + 8 * n + k) = 0

\* The port field of record i (from 0) as a number, signed or not.
PortValue(start, i, signed) ==
    LET p == Byte(start + 8 * i + 4) + 256 * Byte(start + 8 * i + 5)
    IN  IF signed /\ p >= 32768 THEN p - 65536 ELSE p

\* The endpoint text of record i (from 0): the address bytes from the last
\* to the first, and the port.
ExpectedText(start, i, signed) ==
    str(Byte(start + 8 * i + 3)) \o <<".">> \o str(Byte(start + 8 * i + 2))
    \o <<".">> \o str(Byte(start + 8 * i + 1)) \o <<".">>
    \o str(Byte(start + 8 * i)) \o <<":">> \o str(PortValue(start, i, signed))

(***************************************************************************)
(* C1: a run never raises a fault, whatever the buffer, the scanner's      *)
(* answers, the translator's answers and the key decode's outcome.         *)
(* Stated as the claim has it; the code raises (see C5, C6, C7).           *)
(***************************************************************************)
C1_RunNeverFaults == fault = "none" /\ pc # "raised"

FixedOrder == <<"$c2list", "$snippet3", "$snippet4", "$snippet5",
                "$snippet6", "$snippet7">>

(***************************************************************************)
(* C2: the list signatures are scanned in the order of FixedOrder, each    *)
(* only when every earlier one was absent; after a signature is found no   *)
(* later one is scanned, and the translator call and the record walk of    *)
(* the run belong to the first present signature (the primary list when    *)
(* it is present together with an alternative).                            *)
(***************************************************************************)
C2_FixedOrderFirstFoundWins ==
    /\ Len(ListScans) <= Len(FixedOrder)
    /\ \A i \in 1..Len(ListScans) : ListScans[i] = FixedOrder[i]
    /\ \A i \in 1..(Len(ListScans) - 1) : ~Present(ListScans[i])
    /\ \A i \in 1..Len(rva_calls) :
          rva_calls[i][1] # RefRsa =>
             /\ Present(rva_calls[i][1])
             /\ rva_calls[i][1] = ListScans[Len(ListScans)]
    /\ walk_start # <<>> =>
          /\ Present(walk_start[2])
          /\ walk_start[2] = ListScans[Len(ListScans)]
    /\ Endpoints # <<>> => walk_start # <<>>

\* Primary list and $snippet4 both present: the run ended having scanned
\* the primary list alone, with its endpoints reported.
C2_Witness ==
    /\ pc = "done"
    /\ Present("$c2list") /\ Present("$snippet4")
    /\ scanned = <<"$c2list">>
    /\ Len(Endpoints) >= 1
    /\ rva_calls = <<>>

C4_WalkEmitsList ==
    WalkOver =>
        \A n \in 0..(Len(filebuf) \div 8) :
            HoldsList(walk_start[1], n) =>
                Texts = [i \in 1..n |->
                            ExpectedText(walk_start[1], i - 1,
                                         walk_start[2] = "$c2list")]

\* A fallback walk over two equal records and a zero address field.
C4_Witness ==
    /\ WalkOver
    /\ walk_start[2] # "$c2list"
    /\ HoldsList(walk_start[1], 2)
    /\ Len(Endpoints) = 2
    /\ Endpoints[1] = Endpoints[2]

(***************************************************************************)
(* The embedded pointer of a found alternative, as the buffer holds it.    *)
(***************************************************************************)
AnchorOf(sig) == hits[sig].at
PtrAtOf(sig) ==
    AnchorOf(sig) + PtrDistance(sig, IF sig = "$snippet7"
                                     THEN Byte(AnchorOf(sig) + 29) ELSE 0)
PtrReadable(sig) ==
    /\ sig = "$snippet7" => AnchorOf(sig) + 30 <= Len(filebuf)
    /\ PtrAtOf(sig) + 4 <= Len(filebuf)
EmbeddedVA(sig) == unpack_i(Slice(filebuf, PtrAtOf(sig), PtrAtOf(sig) + 4))

\* The RVA of the threshold rule of the spec's AddressResolver.
RuleRva(va) ==
    IF va - image_base <= 131072 THEN va - image_base ELSE va % 65536

LastCall(calls) == calls[Len(calls)]

(***************************************************************************)
(* C5: every alternative that resolves its embedded pointer calls the      *)
(* translator, with raw_va - image_base when that is at most 0x20000 and   *)
(* with raw_va & 0xFFFF when it is more.                                   *)
(* Stated as the claim has it; on the $snippet3 path line 113 leaves       *)
(* c2_list_rva unbound and the translator is never called.                 *)
(***************************************************************************)
C5_ThresholdRule ==
    [][(pc = "resolve" /\ PtrReadable(ListOrder[alt])) =>
          rva_calls' = Append(rva_calls,
                <<ListOrder[alt], RuleRva(EmbeddedVA(ListOrder[alt]))>>)]_vars

(***************************************************************************)
(* C6: a record walk never raises; a read of the address field or of the   *)
(* port field past the end of the buffer ends the walk and the run goes    *)
(* on.  Stated as the claim has it; only the address read of the fallback  *)
(* walks is inside a try.                                                  *)
(***************************************************************************)
C6_WalkNeverRaises ==
    [][(pc \in {"scan_c2list", "walk_primary", "walk_alt"}) => (pc' # "raised")]_vars

(***************************************************************************)
(* C7: when the translator reports an alternative's RVA as not mapped, no  *)
(* fault is raised, nothing is reported for that variant and the driver    *)
(* moves on to the next alternative.                                       *)
(* Stated as the claim has it; the except clause of line 118 raises        *)
(* NameError.                                                              *)
(***************************************************************************)
C7_UnmappedAdvances ==
    [][(/\ pc = "resolve"
        /\ Len(rva_calls') > Len(rva_calls)
        /\ ~get_offset_from_rva(sections, LastCall(rva_calls')[2]).ok) =>
          (/\ fault' = "none"
           /\ pc' \in {"scan_alt", "key_guard"}
           /\ reported' = reported)]_vars

(***************************************************************************)
(* C8: a run reports at most one key, and when the direct procedure gave   *)
(* a key the obfuscated procedure is never started: no scan for $ref_rsa,  *)
(* no translator call for it and no blob decode.                           *)
(***************************************************************************)
C8_AtMostOneKey ==
    /\ Len(Keys) <= 1
    /\ pem_key.kind = "key" =>
          /\ ~Scanned(RefRsa)
          /\ \A i \in 1..Len(rva_calls) : rva_calls[i][1] # RefRsa
          /\ decoded = <<>>
          /\ pc \notin {"rsa_resolve", "rsa_decode"}

\* A run with a direct key and $ref_rsa present ends past the guard of line
\* 257, after a fallback walk, with one key reported.
C8_Witness ==
    /\ pc = "done"
    /\ pem_key.kind = "key"
    /\ Present(RefRsa)
    /\ walk_start # <<>> /\ walk_start[2] # "$c2list"
    /\ Len(Keys) = 1

(***************************************************************************)
(* C9: the port text of an endpoint is the signed 16-bit reading of its    *)
(* port field on the primary path and the unsigned reading on a fallback   *)
(* path.                                                                   *)
(***************************************************************************)
AfterColon(text) ==
    LET c == CHOOSE i \in 1..Len(text) : text[i] = ":"
    IN  SubSeq(text, c + 1, Len(text))

C9_PortSignedness ==
    \A i \in 1..Len(Endpoints) :
        /\ walk_start # <<>>
        /\ AfterColon(Endpoints[i].text) =
              str(PortValue(walk_start[1], i - 1, walk_start[2] = "$c2list"))

\* The primary walk has reported a record whose port field is 0x8000 or
\* more, as a negative number.
C9_Witness ==
    /\ walk_start # <<>> /\ walk_start[2] = "$c2list"
    /\ \E i \in 1..Len(Endpoints) :
          /\ Byte(walk_start[1] + 8 * (i - 1) + 5) >= 128
          /\ AfterColon(Endpoints[i].text)[1] = "-"

(***************************************************************************)
(* C10: when the resolved offset holds a key, the key XOR K and a blob of  *)
(* K > 0 bytes masked with the key's little-endian bytes, the decoder      *)
(* computes xorsize = K, reads the K bytes at offset+8 and recovers the    *)
(* blob, and the key it reports is the one the blob encodes.               *)
(***************************************************************************)
HoldsKeyBlock ==
    /\ scen.shape = "layout"
    /\ KeyStart(scen) + 8 + Len(scen.blob) <= Len(filebuf)
    /\ scen.size = "ok"
    /\ Len(scen.blob) > 0
    /\ ref_rsa_offset = KeyStart(scen)
    /\ Slice(filebuf, ref_rsa_offset, ref_rsa_offset + 4) = Halves(scen.key)

C10_ObfuscatedRoundTrip ==
    (decoded # <<>> /\ HoldsKeyBlock) =>
        /\ decoded[1].xorsize = <<0, Len(scen.blob)>>
        /\ decoded[1].data = Slice(filebuf, ref_rsa_offset + 8,
                                   ref_rsa_offset + 8 + Len(scen.blob))
        /\ Len(decoded[1].data) = Len(scen.blob)
        /\ decoded[1].plain = scen.blob
        /\ DerDecodeKey(scen.blob).kind = "key" =>
              /\ pc = "done"
              /\ Keys = <<KeyEntry(DerDecodeKey(scen.blob))>>

\* An 11-byte blob under the key 0xABCDEF01 decoded to its modulus and
\* exponent.
C10_Witness ==
    /\ pc = "done"
    /\ decoded # <<>>
    /\ HoldsKeyBlock
    /\ scen.key = <<43981, 61185>>
    /\ Len(scen.blob) = 11
    /\ Len(Keys) = 1
    /\ Keys[1].key.n = <<1, 0, 129>>
    /\ Keys[1].key.e = <<1, 1>>

\* The signed 32-bit little-endian number at a file offset.
SignedAt(o) ==
    Byte(o) + 256 * Byte(o + 1) + 65536 * Byte(o + 2)
    + 16777216 * (IF Byte(o + 3) >= 128 THEN Byte(o + 3) - 256 ELSE Byte(o + 3))

\* The run is about to read a field that the buffer does not hold whole:
\* the pointer field of the found list signature, or the pointer field of
\* $ref_rsa, or the key or size field at the resolved offset.
ShortField ==
    \/ pc = "resolve" /\ ~PtrReadable(ListOrder[alt])
    \/ pc = "rsa_resolve" /\ AnchorOf(RefRsa) + 32 > Len(filebuf)
    \/ pc = "rsa_decode" /\ ref_rsa_offset + 8 > Len(filebuf)

(***************************************************************************)
(* C11: when the buffer ends before a field the extraction needs (the      *)
(* pointer field of a found signature, or the key and size fields at the   *)
(* resolved $ref_rsa offset), the step reports nothing and raises no       *)
(* fault.                                                                  *)
(* Stated as the claim has it; struct.unpack of lines 111, 261, 267 and    *)
(* 268 raises struct.error on a slice that is not 4 bytes long.            *)
(***************************************************************************)
C11_ShortFieldNoFault ==
    [][ShortField => ((pc' # "raised") /\ (fault' = "none")
                      /\ (reported' = reported))]_vars

\* The first match of the pattern of line 71 is not a DER sequence of two
\* integers.
DirectMalformed ==
    /\ PubMatches(filebuf) # {}
    /\ extract_emotet_rsakey(filebuf).kind = "error"

(***************************************************************************)
(* C13: when the direct pattern matches and the DER decode of its 106      *)
(* bytes fails, only the direct attempt is given up: no fault leaves the   *)
(* run and the list discovery still runs.                                  *)
(* Stated as the claim has it; seq.decode of line 75 is under no try.      *)
(***************************************************************************)
C13_MalformedDirectKeyAbandoned ==
    DirectMalformed =>
        /\ fault = "none" /\ pc # "raised"
        /\ pc # "direct_key" => Scanned("$c2list")

(***************************************************************************)
(* C14: once the $ref_rsa pointer is resolved, a read past the end of the  *)
(* buffer, a size of zero or a DER failure ends the attempt with no key    *)
(* reported and no fault, and the endpoints reported before it stay.       *)
(* Stated as the claim has it; lines 267-271 are under no try.             *)
(***************************************************************************)
C14_ObfuscatedAttemptEndsQuietly ==
    [][(pc = "rsa_decode") =>
          ((pc' = "done") /\ (fault' = "none")
           /\ (SelectSeq(reported', IsAddress) = Endpoints))]_vars

(***************************************************************************)
(* C15: the RVA the obfuscated procedure hands to the translator is the    *)
(* signed 32-bit number at anchor+28 minus the image base, never masked,   *)
(* also when it is more than 0x20000; when the translator does not map it  *)
(* the attempt ends with no key, no fault and nothing read after it.       *)
(***************************************************************************)
C15_ObfuscatedRvaUnmasked ==
    \A i \in 1..Len(rva_calls) :
        rva_calls[i][1] = RefRsa =>
            /\ rva_calls[i][2] = SignedAt(AnchorOf(RefRsa) + 28) - image_base
            /\ ~get_offset_from_rva(sections, rva_calls[i][2]).ok =>
                  /\ pc = "done"
                  /\ fault = "none"
                  /\ Keys = <<>>
                  /\ decoded = <<>>

\* The translator was asked for an RVA above 0x20000, did not map it, and
\* the run ended after the endpoints of its list.
C15_Witness ==
    /\ pc = "done"
    /\ rva_calls # <<>>
    /\ LastCall(rva_calls)[1] = RefRsa
    /\ LastCall(rva_calls)[2] > 131072
    /\ ~get_offset_from_rva(sections, LastCall(rva_calls)[2]).ok
    /\ Len(Endpoints) > 0

InWalk == pc \in {"walk_primary", "walk_alt"}

\* A turn of a walk that does not end it emits one record it could read
\* whole and moves the offset by 8; no other turn moves the offset.
WalkStride ==
    /\ (InWalk /\ pc' = pc) =>
          /\ list_offset + 6 <= Len(filebuf)
          /\ list_offset' = list_offset + 8
          /\ Len(reported') = Len(reported) + 1
    /\ (InWalk /\ list_offset' # list_offset) =>
          /\ list_offset' = list_offset + 8
          /\ Len(reported') = Len(reported) + 1
          /\ IsAddress(reported'[Len(reported')])

(***************************************************************************)
(* C16: every record walk ends, also with no zero address in the buffer:   *)
(* the offset moves only by +8 with each record emitted, and a walk emits  *)
(* no more records than the buffer length divided by 8.                    *)
(* Stated as the claim has it; the code has no cap, and a record needs     *)
(* only its first 6 bytes inside the buffer.                               *)
(***************************************************************************)
C16_WalkTerminatesBounded ==
    [][WalkStride /\ (8 * Len(SelectSeq(reported', IsAddress))
                        <= Len(filebuf))]_vars

\* The translator calls made for a list signature.
IsListCall(c) == c[1] # RefRsa
ListCalls == SelectSeq(rva_calls, IsListCall)

(***************************************************************************)
(* C17: a key of the direct procedure is reported before every endpoint,   *)
(* a key of the obfuscated procedure after every endpoint of the run, and  *)
(* the endpoints of a run are the records of one variant's list.           *)
(***************************************************************************)
C17_OutputOrder ==
    /\ (pem_key.kind = "key") =>
          (reported # <<>> /\ reported[1] = KeyEntry(pem_key))
    /\ \A i \in 1..Len(reported) :
          IsKey(reported[i]) =>
              IF pem_key.kind = "key"
              THEN i = 1
              ELSE i = Len(reported) /\ decoded # <<>> /\ pc = "done"
    /\ Len(ListCalls) <= 1
    /\ Endpoints # <<>> =>
          /\ walk_start # <<>>
          /\ \A j \in 1..Len(Endpoints) :
                Endpoints[j].text =
                    ExpectedText(walk_start[1], j - 1, walk_start[2] = "$c2list")

\* A run that reported the endpoints of one list and then the key of the
\* obfuscated procedure.
C17_Witness ==
    /\ pc = "done"
    /\ pem_key.kind # "key"
    /\ Len(reported) >= 2
    /\ IsKey(reported[Len(reported)])
    /\ \A i \in 1..(Len(reported) - 1) : IsAddress(reported[i])

\* A run that reported the key of the direct procedure and then endpoints.
DirectKeyThenEndpoints ==
    /\ pem_key.kind = "key"
    /\ Len(reported) >= 2
    /\ IsKey(reported[1]) /\ IsAddress(reported[2])

\* Where the code reads the pointer of $snippet7.
Snippet7PtrAt ==
    AnchorOf("$snippet7")
    + (IF Byte(AnchorOf("$snippet7") + 29) = 0 THEN 26 ELSE 27)

(***************************************************************************)
(* C18: $snippet7 is scanned for only when $c2list and $snippet3 to        *)
(* $snippet6 are all absent; its pointer is the signed 32-bit number at    *)
(* anchor+26 when the byte at anchor+29 is zero and at anchor+27 when it   *)
(* is not; the pointer is resolved by the threshold rule and the list is   *)
(* walked with unsigned ports.                                             *)
(***************************************************************************)
C18_Snippet7Variant ==
    /\ Scanned("$snippet7") =>
          \A sig \in {"$c2list", "$snippet3", "$snippet4", "$snippet5",
                      "$snippet6"} : Scanned(sig) /\ ~Present(sig)
    /\ \A i \in 1..Len(rva_calls) :
          rva_calls[i][1] = "$snippet7" =>
              rva_calls[i][2] = RuleRva(SignedAt(Snippet7PtrAt))
    /\ (walk_start # <<>> /\ walk_start[2] = "$snippet7") =>
          /\ ListCalls # <<>>
          /\ get_offset_from_rva(sections, ListCalls[1][2]).ok
          /\ walk_start[1] = get_offset_from_rva(sections, ListCalls[1][2]).off
          /\ \A j \in 1..Len(Endpoints) :
                Endpoints[j].text = ExpectedText(walk_start[1], j - 1, FALSE)

\* A $snippet7 run with a nonzero byte at anchor+29 that read its pointer
\* at anchor+27 and reported the endpoints of the list, one of them with a
\* port of 0x8000 or more.
C18_Witness ==
    /\ pc = "done"
    /\ walk_start # <<>> /\ walk_start[2] = "$snippet7"
    /\ Byte(AnchorOf("$snippet7") + 29) # 0
    /\ scen.ptrAt = 27
    /\ walk_start[1] = RecStart(scen)
    /\ \E j \in 1..Len(Endpoints) :
          Byte(walk_start[1] + 8 * (j - 1) + 5) >= 128

\* A $snippet7 run with a zero byte at anchor+29 that read its pointer at
\* anchor+26 and reported endpoints.
Snippet7Unshifted ==
    /\ walk_start # <<>> /\ walk_start[2] = "$snippet7"
    /\ Byte(AnchorOf("$snippet7") + 29) = 0
    /\ scen.ptrAt = 26
    /\ Len(Endpoints) > 0

====
